---- MODULE Spec2Model ----
(***************************************************************************)
(* A model of web-client/ts/common.ts of FeoBlog: the async generator      *)
(* prefetch() and the class TaskTracker.                                   *)
(*                                                                         *)
(* prefetch is modelled as the state machine of an async generator driven  *)
(* by one consumer that pulls one value at a time (for await), a source    *)
(* that answers next(), and the transforms' promises settling in any       *)
(* order.  TaskTracker is modelled with its fields, one action per public  *)
(* method, and run() split at its only suspension point (the await).       *)
(***************************************************************************)
EXTENDS Integers, Sequences, FiniteSets

VARIABLES
    \* ---- prefetch(items, count, asyncFilter) ----
    items,        \* the source, as the sequence of elements it will produce
    count,        \* the `count` argument
    asyncFilter,  \* the transform, a function on the elements
    rejects,      \* source indices whose asyncFilter promise will reject
    throws,       \* source indices for which asyncFilter throws instead of returning a promise
    srcPos,       \* number of elements drawn from the source so far
    source,       \* "open" | "done" (reported exhaustion) | "closing" (return() called) | "closed"
    outs,         \* the local `outs`: promises, named by the source index they belong to
    promise,      \* state of each asyncFilter promise: "none" | "pending" | "fulfilled" | "rejected"
    settleOrder,  \* history: the indices in the order their promises settled
    pc,           \* position of the generator body
    phase,        \* "loop": inside the for-await; "drain": in the trailing while
    cur,          \* the promise the pending `yield` awaits (0: none)
    raising,      \* the exception on its way out of the for-await (<<>>: none)
    waiting,      \* the consumer has called next() and its promise is not settled
    received,     \* what the consumer's next() calls settled with, in order
    \* ---- TaskTracker ----
    store,        \* TRUE when a Writable is attached to `store`
    isRunning,    \* _isRunning
    logs,         \* _logs
    published,    \* what the store was last set() with: a snapshot of the tracker
    runpc,        \* per call of run(): "idle" | "awaiting" | "resolved" | "rejected"
    now,          \* the clock DateTime.local() reads
    solo,         \* history: the latest run() started alone and nothing but its task wrote since
    taskWrites,   \* history: entries written through log/warn/error since the latest run() began
    outcome       \* history: how the latest run()'s task ended (none, ok, threw) and `${e}`

pvars == <<items, count, asyncFilter, rejects, throws, srcPos, source, outs, promise,
           settleOrder, pc, phase, cur, raising, waiting, received>>
tvars == <<store, isRunning, logs, published, runpc, now, solo, taskWrites, outcome>>
vars == <<pvars, tvars>>

----------------------------------------------------------------------------
\* Bounds of the model.
MaxLen == 3      \* longest source
MaxItem == 2     \* source elements are 1..MaxItem
MaxCount == 3    \* count ranges over 0..MaxCount

Items == 1..MaxItem

RECURSIVE SeqsUpTo(_)
SeqsUpTo(n) ==
    IF n = 0 THEN {<<>>}
    ELSE SeqsUpTo(n - 1) \cup [1..n -> Items]

\* The transforms tried: squaring (the spec's example) and successor.
Filters == { [x \in Items |-> x * x], [x \in Items |-> x + 1] }

----------------------------------------------------------------------------
\* prefetch: helpers, each one expression or statement of the generator body.

\* Variant: the bound enforced one element late.
WindowFull_OffByOne(o, c) == Len(o) > c + 1

\* outs.length > count (the inner while's condition)
WindowFull(o, c) == Len(o) > c

\* Variant: takes the first promise of the window that has already settled
\* (the oldest when none has), instead of the oldest.
ShiftOut_FirstSettled(o) ==
    LET done == {j \in 1..Len(o) : promise[o[j]] \in {"fulfilled", "rejected"}}
        j == IF done = {} THEN 1 ELSE CHOOSE x \in done : \A y \in done : x <= y
    IN  [p |-> o[j], rest |-> SubSeq(o, 1, j - 1) \o SubSeq(o, j + 1, Len(o))]

\* outs.shift(): the oldest promise and the rest
ShiftOut(o) == [p |-> Head(o), rest |-> Tail(o)]

\* outs.push(asyncFilter(item)) for the element at source index i
PushOut(o, i) == Append(o, i)

\* The outcome asyncFilter's promise for index i settles with.
SettleAs(i) == IF i \in rejects THEN "rejected" ELSE "fulfilled"

ValueOf(i) == [type |-> "value", v |-> asyncFilter[items[i]]]
ErrorOf(i) == [type |-> "error", v |-> i]
Done == [type |-> "done", v |-> 0]

\* Variant: the rejection is caught around the yield and the loop goes on.
AfterThrow_Resumes == "yielded"

\* The position of the generator after `yield p` threw: nothing in the body
\* catches, so the generator completes.
AfterThrow == "completed"

\* while (outs.length > count) { yield outs.shift() }: the next suspension
\* point, given the window o.
LoopCheck(o) ==
    IF WindowFull(o, count)
    THEN [pc |-> "awaitOut", cur |-> ShiftOut(o).p, outs |-> ShiftOut(o).rest]
    ELSE [pc |-> "awaitSource", cur |-> 0, outs |-> o]

\* Variant: the trailing while is missing.
DrainCheck_NoDrain(o) == [pc |-> "completed", cur |-> 0, outs |-> o]

\* while (outs.length > 0) { yield outs.shift() }, then the end of the body.
DrainCheck(o) ==
    IF Len(o) > 0
    THEN [pc |-> "awaitOut", cur |-> ShiftOut(o).p, outs |-> ShiftOut(o).rest]
    ELSE [pc |-> "completed", cur |-> 0, outs |-> o]

InitPrefetch ==
    /\ items \in SeqsUpTo(MaxLen)
    /\ count \in 0..MaxCount
    /\ asyncFilter \in Filters
    /\ throws \in {t \in SUBSET (1..Len(items)) : Cardinality(t) <= 1}
    /\ rejects \in SUBSET ((1..Len(items)) \ throws)
    /\ srcPos = 0
    /\ source = "open"
    /\ outs = <<>>
    /\ promise = [i \in 1..Len(items) |-> "none"]
    /\ settleOrder = <<>>
    /\ pc = "start"
    /\ phase = "loop"
    /\ cur = 0
    /\ raising = <<>>
    /\ waiting = FALSE
    /\ received = <<>>

\* The consumer has seen the end of the sequence.
Finished == received # <<>> /\ received[Len(received)].type = "done"

----------------------------------------------------------------------------
\* prefetch: the actions.

\* The consumer calls next() on the generator (it pulls one value at a time and
\* stops once it has seen the end).  The generator body runs to its next
\* suspension point.
ConsumerNext ==
    /\ ~waiting
    /\ ~Finished
    /\ \/ /\ pc = "start"                 \* let outs = []; for await (... of items)
          /\ pc' = "awaitSource"
          /\ waiting' = TRUE
          /\ UNCHANGED <<outs, cur, received>>
       \/ /\ pc = "yielded"               \* resume after a yield: re-test the while
          /\ LET s == IF phase = "loop" THEN LoopCheck(outs) ELSE DrainCheck(outs)
             IN  /\ pc' = s.pc
                 /\ cur' = s.cur
                 /\ outs' = s.outs
                 /\ IF s.pc = "completed"
                    THEN /\ received' = Append(received, Done)
                         /\ waiting' = FALSE
                    ELSE /\ received' = received
                         /\ waiting' = TRUE
       \/ /\ pc = "completed"             \* a finished generator reports the end
          /\ received' = Append(received, Done)
          /\ UNCHANGED <<pc, cur, outs, waiting>>
    /\ UNCHANGED <<items, count, asyncFilter, rejects, throws, srcPos, source, promise,
                   settleOrder, phase, raising>>
    /\ UNCHANGED tvars

\* The source answers the for-await's next(): an element (line 65 runs, then
\* the inner while), or exhaustion (the trailing while runs).  When
\* asyncFilter(item) throws instead of returning a promise, nothing is pushed
\* and the exception leaves the for-await, which first calls the source's
\* return() and awaits it.
SourceNext ==
    /\ pc = "awaitSource"
    /\ \/ /\ srcPos < Len(items)
          /\ srcPos + 1 \notin throws
          /\ LET i == srcPos + 1
                 s == LoopCheck(PushOut(outs, i))
             IN  /\ srcPos' = i
                 /\ promise' = [promise EXCEPT ![i] = "pending"]
                 /\ pc' = s.pc
                 /\ cur' = s.cur
                 /\ outs' = s.outs
          /\ UNCHANGED <<source, phase, raising, received, waiting>>
       \/ /\ srcPos < Len(items)
          /\ srcPos + 1 \in throws
          /\ srcPos' = srcPos + 1
          /\ pc' = "closing"
          /\ source' = "closing"
          /\ raising' = <<ErrorOf(srcPos + 1)>>
          /\ UNCHANGED <<promise, cur, outs, phase, received, waiting>>
       \/ /\ srcPos >= Len(items)
          /\ source' = "done"
          /\ phase' = "drain"
          /\ LET s == DrainCheck(outs)
             IN  /\ pc' = s.pc
                 /\ cur' = s.cur
                 /\ outs' = s.outs
                 /\ IF s.pc = "completed"
                    THEN /\ received' = Append(received, Done)
                         /\ waiting' = FALSE
                    ELSE UNCHANGED <<received, waiting>>
          /\ UNCHANGED <<srcPos, promise, raising>>
    /\ UNCHANGED <<items, count, asyncFilter, rejects, throws, settleOrder>>
    /\ UNCHANGED tvars

\* The promise asyncFilter returned for index i settles.  Any pending promise
\* may settle at any time, whether or not the generator still holds it.
Settle(i) ==
    /\ promise[i] = "pending"
    /\ promise' = [promise EXCEPT ![i] = SettleAs(i)]
    /\ settleOrder' = Append(settleOrder, i)
    /\ UNCHANGED <<items, count, asyncFilter, rejects, throws, srcPos, source, outs, pc,
                   phase, cur, raising, waiting, received>>
    /\ UNCHANGED tvars

\* The promise the pending yield awaits has settled.  Fulfilled: the generator
\* yields its value to the consumer.  Rejected: the rejection is thrown at the
\* yield; inside the for-await it first calls the source's return() and awaits
\* it, in the trailing while it leaves the generator at once.
Resume ==
    /\ pc = "awaitOut"
    /\ \/ /\ promise[cur] = "fulfilled"
          /\ received' = Append(received, ValueOf(cur))
          /\ pc' = "yielded"
          /\ waiting' = FALSE
          /\ UNCHANGED <<source, raising>>
       \/ /\ promise[cur] = "rejected"
          /\ phase = "loop"
          /\ pc' = "closing"
          /\ source' = "closing"
          /\ raising' = <<ErrorOf(cur)>>
          /\ UNCHANGED <<received, waiting>>
       \/ /\ promise[cur] = "rejected"
          /\ phase = "drain"
          /\ received' = Append(received, ErrorOf(cur))
          /\ pc' = AfterThrow
          /\ waiting' = FALSE
          /\ UNCHANGED <<source, raising>>
    /\ cur' = 0
    /\ UNCHANGED <<items, count, asyncFilter, rejects, throws, srcPos, outs, promise,
                   settleOrder, phase>>
    /\ UNCHANGED tvars

\* The promise of the source's return() settles (however it settles, the
\* exception on its way out wins): the generator completes and the consumer's
\* pending next() rejects with that exception.
SourceReturned ==
    /\ pc = "closing"
    /\ source' = "closed"
    /\ received' = Append(received, raising[1])
    /\ raising' = <<>>
    /\ pc' = AfterThrow
    /\ waiting' = FALSE
    /\ UNCHANGED <<items, count, asyncFilter, rejects, throws, srcPos, outs, promise,
                   settleOrder, phase, cur>>
    /\ UNCHANGED tvars

----------------------------------------------------------------------------
\* TaskTracker.

MaxRuns == 2     \* calls of run() in one behaviour
MaxLogs == 2     \* log/warn/error are called only while _logs is shorter than this
MaxClock == 1    \* the clock reads 0..MaxClock

Runs == 1..MaxRuns

\* The calls of run() are numbered in the order they are made.
NextCall(r) == \A q \in Runs : q < r => runpc[q] # "idle"
Messages == {"m"}
\* What a task may throw, which catch (e) binds: a string, an Error object
\* with or without a message, a Symbol (which stands for every value that has
\* no conversion to a string, such as an object without a prototype).
Thrown ==
    { [kind |-> "string", msg |-> "boom"],
      [kind |-> "Error", msg |-> "boom"],
      [kind |-> "Error", msg |-> ""],
      [kind |-> "symbol", msg |-> "x"] }

\* Whether `${e}` yields a string: for a Symbol (and for an object that has no
\* usable toString) it throws a TypeError instead.
CanConvert(e) == e.kind \in {"string", "Error"}

\* `${e}` where it yields a string: a string is itself, an Error is its name,
\* followed by ": " and its message when it has one.
ToString(e) ==
    CASE e.kind = "string" -> e.msg
      [] e.kind = "Error" -> IF e.msg = "" THEN "Error" ELSE "Error: " \o e.msg

\* The tracker's fields, as one record the methods transform.
Tracker == [store |-> store, isRunning |-> isRunning, logs |-> logs, published |-> published]

Snapshot(t) == [logs |-> t.logs, isRunning |-> t.isRunning]

\* notify(): if (this.store) this.store.set(this)
Notify(t) == IF t.store THEN [t EXCEPT !.published = <<Snapshot(t)>>] ELSE t

\* clear()
Clear(t) == Notify([t EXCEPT !.logs = <<>>])

\* writeLog(log)
WriteLog(t, entry) == Notify([t EXCEPT !.logs = Append(@, entry)])

\* error(message), log(message), warn(message); ts is DateTime.local().valueOf().
\* A field the object literal leaves out is FALSE here.
ErrorEntry(m, ts) == [message |-> m, isError |-> TRUE, isWarning |-> FALSE, timestamp |-> ts]
LogEntry(m, ts) == [message |-> m, isError |-> FALSE, isWarning |-> FALSE, timestamp |-> ts]
WarnEntry(m, ts) == [message |-> m, isError |-> FALSE, isWarning |-> TRUE, timestamp |-> ts]
Error(t, m, ts) == WriteLog(t, ErrorEntry(m, ts))
Log(t, m, ts) == WriteLog(t, LogEntry(m, ts))
Warn(t, m, ts) == WriteLog(t, WarnEntry(m, ts))

\* run(), up to the call of asyncTask: clear, set the flag, log "Begin".
RunBegin(t, ts) == Log([Clear(t) EXCEPT !.isRunning = TRUE], "Begin", ts)

\* try { await asyncTask() } catch (e) { this.error(...) }: the tracker after
\* the try statement, and whether an exception leaves it.  The argument of
\* this.error is evaluated first: when `${e}` throws, nothing is logged and the
\* TypeError leaves the catch block.
TryAwait(t, threw, e, ts) ==
    IF ~threw
    THEN [t |-> t, escaped |-> FALSE]
    ELSE IF CanConvert(e)
         THEN [t |-> Error(t, "Task threw an exception: " \o ToString(e), ts),
               escaped |-> FALSE]
         ELSE [t |-> t, escaped |-> TRUE]

\* Variant: the flag is reset after "Done" is logged, so after the last notify.
RunEnd_FlagAfterLog(t, ts) == [Log(t, "Done", ts) EXCEPT !.isRunning = FALSE]

\* The two statements after the try: reset the flag, log "Done".
RunEnd(t, ts) == Log([t EXCEPT !.isRunning = FALSE], "Done", ts)

\* run() from the moment the task ended to its own end: the tracker, and how
\* the promise run() returned settles.  The clock is read once for the error
\* entry (tsErr) and once for "Done" (tsDone).  An exception that leaves the
\* try statement skips the two statements after it.
RunSettle(t, threw, e, tsErr, tsDone) ==
    LET c == TryAwait(t, threw, e, tsErr)
    IN  IF c.escaped
        THEN [t |-> c.t, result |-> "rejected"]
        ELSE [t |-> RunEnd(c.t, tsDone), result |-> "resolved"]

\* History: how a task that threw e ended, with the text `${e}` gives if any.
ThrewOutcome(e) == [kind |-> "threw", text |-> IF CanConvert(e) THEN ToString(e) ELSE ""]

InitTracker ==
    /\ store = FALSE
    /\ isRunning = FALSE
    /\ logs = <<>>
    /\ published = <<>>
    /\ runpc = [r \in Runs |-> "idle"]
    /\ now = 0
    /\ solo = FALSE
    /\ taskWrites = <<>>
    /\ outcome = [kind |-> "none", text |-> ""]

SomeRunAwaiting == \E r \in Runs : runpc[r] = "awaiting"

\* Writes the four fields of a tracker record back to the variables.
SetTracker(t) ==
    /\ store' = t.store
    /\ isRunning' = t.isRunning
    /\ logs' = t.logs
    /\ published' = t.published

\* An entry without its timestamp.
Strip(entry) == [message |-> entry.message, isError |-> entry.isError, isWarning |-> entry.isWarning]

\* run(asyncTask) is called and asyncTask() returns its promise: run suspends
\* at the await.
RunStart(r) ==
    /\ runpc[r] = "idle"
    /\ NextCall(r)
    /\ SetTracker(RunBegin(Tracker, now))
    /\ runpc' = [runpc EXCEPT ![r] = "awaiting"]
    /\ solo' = ~SomeRunAwaiting
    /\ taskWrites' = <<>>
    /\ outcome' = [kind |-> "none", text |-> ""]
    /\ UNCHANGED now
    /\ UNCHANGED pvars

\* run(asyncTask) is called and asyncTask() throws before returning a promise:
\* the whole body of run executes without suspending.  "Begin" is stamped with
\* the clock as it is, the later entries with what it reads by then.
RunSyncThrow(r, e) ==
    /\ runpc[r] = "idle"
    /\ NextCall(r)
    /\ \E tsErr \in now..MaxClock : \E tsDone \in tsErr..MaxClock :
          LET s == RunSettle(RunBegin(Tracker, now), TRUE, e, tsErr, tsDone)
          IN  /\ SetTracker(s.t)
              /\ runpc' = [runpc EXCEPT ![r] = s.result]
              /\ now' = tsDone
    /\ solo' = ~SomeRunAwaiting
    /\ taskWrites' = <<>>
    /\ outcome' = ThrewOutcome(e)
    /\ UNCHANGED pvars

\* The task's promise fulfils: run resumes after the await.
TaskResolve(r) ==
    /\ runpc[r] = "awaiting"
    /\ LET s == RunSettle(Tracker, FALSE, [kind |-> "string", msg |-> ""], now, now)
       IN  /\ SetTracker(s.t)
           /\ runpc' = [runpc EXCEPT ![r] = s.result]
    /\ outcome' = [kind |-> "ok", text |-> ""]
    /\ UNCHANGED <<now, solo, taskWrites>>
    /\ UNCHANGED pvars

\* The task's promise rejects with e: run resumes in the catch block.
TaskReject(r, e) ==
    /\ runpc[r] = "awaiting"
    /\ \E tsDone \in now..MaxClock :
          LET s == RunSettle(Tracker, TRUE, e, now, tsDone)
          IN  /\ SetTracker(s.t)
              /\ runpc' = [runpc EXCEPT ![r] = s.result]
              /\ now' = tsDone
    /\ outcome' = ThrewOutcome(e)
    /\ UNCHANGED <<solo, taskWrites>>
    /\ UNCHANGED pvars

\* History kept by a call of log/warn/error that wrote `entry`: while a run that
\* started alone is awaiting its task the write counts as the task's; any other
\* write ends the "nothing but the task wrote" condition (and the history of
\* writes is then dropped).
NoteWrite(entry) ==
    IF SomeRunAwaiting /\ solo
    THEN /\ taskWrites' = Append(taskWrites, Strip(entry))
         /\ solo' = solo
    ELSE /\ taskWrites' = <<>>
         /\ solo' = FALSE

\* log(message), warn(message), error(message), called by the task or anyone.
LogCall(m) ==
    /\ Len(logs) < MaxLogs
    /\ SetTracker(Log(Tracker, m, now))
    /\ NoteWrite(LogEntry(m, now))
    /\ UNCHANGED <<runpc, now, outcome>>
    /\ UNCHANGED pvars

WarnCall(m) ==
    /\ Len(logs) < MaxLogs
    /\ SetTracker(Warn(Tracker, m, now))
    /\ NoteWrite(WarnEntry(m, now))
    /\ UNCHANGED <<runpc, now, outcome>>
    /\ UNCHANGED pvars

ErrorCall(m) ==
    /\ Len(logs) < MaxLogs
    /\ SetTracker(Error(Tracker, m, now))
    /\ NoteWrite(ErrorEntry(m, now))
    /\ UNCHANGED <<runpc, now, outcome>>
    /\ UNCHANGED pvars

\* clear(), called by anyone.
ClearCall ==
    /\ SetTracker(Clear(Tracker))
    /\ solo' = FALSE
    /\ taskWrites' = <<>>
    /\ UNCHANGED <<runpc, now, outcome>>
    /\ UNCHANGED pvars

\* tracker.store = <a Writable>: the client attaches its store.
AttachStore ==
    /\ ~store
    /\ store' = TRUE
    /\ UNCHANGED <<isRunning, logs, published, runpc, now, solo, taskWrites, outcome>>
    /\ UNCHANGED pvars

\* Time passes.
Tick ==
    /\ now < MaxClock
    /\ now' = now + 1
    /\ UNCHANGED <<store, isRunning, logs, published, runpc, solo, taskWrites, outcome>>
    /\ UNCHANGED pvars

----------------------------------------------------------------------------
\* The specifications.

\* prefetch, with an untouched tracker beside it.
Init == InitPrefetch /\ InitTracker

Next ==
    \/ ConsumerNext
    \/ SourceNext
    \/ \E i \in 1..Len(items) : Settle(i)
    \/ Resume
    \/ SourceReturned

Spec == Init /\ [][Next]_vars

\* The same, with what the claims about termination assume: the consumer keeps
\* pulling, the source answers, every submitted transform settles, and the
\* runtime resumes a generator whose awaited promise has settled.
FairSpec ==
    /\ Init
    /\ [][Next]_vars
    /\ WF_vars(ConsumerNext)
    /\ WF_vars(SourceNext)
    /\ WF_vars(\E i \in 1..Len(items) : Settle(i))
    /\ WF_vars(Resume)

\* TaskTracker, with a prefetch that is never started beside it.
InitIdlePrefetch ==
    /\ items = <<>>
    /\ count = 0
    /\ asyncFilter = [x \in Items |-> x * x]
    /\ rejects = {}
    /\ throws = {}
    /\ srcPos = 0
    /\ source = "open"
    /\ outs = <<>>
    /\ promise = <<>>
    /\ settleOrder = <<>>
    /\ pc = "start"
    /\ phase = "loop"
    /\ cur = 0
    /\ raising = <<>>
    /\ waiting = FALSE
    /\ received = <<>>

TrackerInit == InitIdlePrefetch /\ InitTracker

TrackerNext ==
    \/ \E r \in Runs : RunStart(r)
    \/ \E r \in Runs, e \in Thrown : RunSyncThrow(r, e)
    \/ \E r \in Runs : TaskResolve(r)
    \/ \E r \in Runs, e \in Thrown : TaskReject(r, e)
    \/ \E m \in Messages : LogCall(m)
    \/ \E m \in Messages : WarnCall(m)
    \/ \E m \in Messages : ErrorCall(m)
    \/ ClearCall
    \/ AttachStore
    \/ Tick

TrackerSpec == TrackerInit /\ [][TrackerNext]_vars

----------------------------------------------------------------------------
\* Properties of prefetch.

\* The entries of `received` that carry a transform's outcome.
NumYielded == Cardinality({j \in 1..Len(received) : received[j].type \in {"value", "error"}})

\* Some promise settled before one submitted earlier.
SettledOutOfOrder ==
    \E a, b \in 1..Len(settleOrder) : a < b /\ settleOrder[a] > settleOrder[b]

\* No transform fails, neither by rejecting nor by throwing.
NoFailure == rejects = {} /\ throws = {}

HasError == \E j \in 1..Len(received) : received[j].type = "error"

\* C1: when no transform fails, what the consumer receives is, position by
\* position, asyncFilter applied to the source's elements in source order,
\* followed by the end of the sequence, whatever the order in which the
\* transforms completed.
C1_OutputInSourceOrder ==
    NoFailure =>
        /\ Len(received) <= Len(items) + 1
        /\ \A j \in 1..Len(received) :
              IF j <= Len(items)
              THEN received[j] = [type |-> "value", v |-> asyncFilter[items[j]]]
              ELSE received[j] = Done
        /\ Finished => Len(received) = Len(items) + 1

\* C1 witness: a three-element source with different elements was received in
\* full although a later transform completed before an earlier one.
C1_Witness ==
    /\ NoFailure
    /\ Finished
    /\ Len(items) = 3
    /\ items[1] # items[2]
    /\ count >= 1
    /\ SettledOutOfOrder
    /\ C1_OutputInSourceOrder

\* C2: the number of transforms submitted whose outcome has not been yielded to
\* the consumer never exceeds count + 1.
C2_OutstandingBound == srcPos - NumYielded <= count + 1

\* C2 witness: count + 1 transforms outstanding, with count at least 2.
C2_Witness == count >= 2 /\ srcPos - NumYielded = count + 1

\* C3: when the transform fails for exactly one element, at source index k
\* (its promise rejects, or the call throws), the consumer receives the
\* transformed elements 1..k-1 in order and the error as the outcome of pull k,
\* neither earlier nor later.
C3_ErrorAtPosition ==
    Cardinality(rejects \cup throws) = 1 =>
        LET k == CHOOSE i \in rejects \cup throws : TRUE
        IN  \A j \in 1..Len(received) :
               /\ j < k => received[j] = [type |-> "value", v |-> asyncFilter[items[j]]]
               /\ j = k => received[j] = [type |-> "error", v |-> k]
               /\ j > k => received[j].type # "error"

\* C4 as claimed: a failure leaves the other items unaffected, so a consumer
\* that iterates to the end has had every source element consumed and an
\* outcome for each of them.
C4_OthersUnaffected ==
    Finished => (srcPos = Len(items) /\ Len(received) = Len(items) + 1)

\* C4 amended: once an error has been raised to the consumer the generator is
\* finished: it draws nothing more from the source, yields none of the
\* promises left in its window, and answers a later pull with the end of the
\* sequence.  The transforms in flight are left alone: each stays pending or
\* settles with its own outcome.
C4_FailureEndsSequence ==
    [][HasError =>
          /\ pc' = "completed"
          /\ srcPos' = srcPos
          /\ outs' = outs
          /\ (received' = received \/ received' = Append(received, Done))
          /\ \A i \in 1..Len(items) :
                promise[i] = "pending" => promise'[i] \in {"pending", SettleAs(i)}
      ]_vars

\* C4 witness: after an error the consumer has seen the end, although source
\* elements were never drawn and a transform left in the window fulfilled.
C4_Witness ==
    /\ HasError
    /\ Finished
    /\ srcPos < Len(items)
    /\ \E j \in 1..Len(outs) : promise[outs[j]] = "fulfilled"

\* What C6 says of termination.
Terminated ==
    /\ Finished
    /\ pc = "completed"
    /\ outs = <<>>
    /\ cur = 0
    /\ srcPos = Len(items)
    /\ NumYielded = Len(items)
    /\ Len(received) = Len(items) + 1

\* C6: with no failing transform, a consumer that keeps pulling and transforms
\* that all complete, prefetch eventually reports the end, and then the window
\* is empty and the consumer has received exactly one result per source element.
C6_Terminates == NoFailure ~> Terminated

\* C6 witness: a three-element source iterated to the end with count 1, and the
\* empty source ended with nothing submitted.
C6_Witness ==
    /\ Terminated
    /\ NoFailure
    /\ Len(items) = 3
    /\ count = 1

\* C9: at the moment the generator starts yielding its first result,
\* asyncFilter has been applied to at most count source elements.
C9_AtMostCountBeforeFirstYield ==
    (pc = "awaitOut" /\ received = <<>>) => srcPos <= count

----------------------------------------------------------------------------
\* Properties of TaskTracker.

Stripped(l) == [j \in 1..Len(l) |-> Strip(l[j])]

\* C5: a call of run() that ends, ends with its promise resolved, whether the
\* task fulfilled, rejected or threw before returning; _isRunning is then
\* false, and when the task threw, an error entry holding the exception's text
\* was appended (it is the entry before "Done").
C5_RunNeverRejects ==
    [][\A r \in Runs :
          (runpc'[r] # runpc[r] /\ runpc'[r] # "awaiting") =>
             /\ runpc'[r] = "resolved"
             /\ ~isRunning'
             /\ outcome'.kind = "threw" =>
                   /\ Len(logs') >= 2
                   /\ logs'[Len(logs') - 1].isError
                   /\ logs'[Len(logs') - 1].message =
                         "Task threw an exception: " \o outcome'.text
      ]_vars

\* C7: with a store attached, every step that changes _logs or _isRunning
\* leaves the store set with the tracker's new state.
C7_PublishedAfterMutation ==
    [][(store' /\ (logs' # logs \/ isRunning' # isRunning)) =>
          published' = <<[logs |-> logs', isRunning |-> isRunning']>>
      ]_vars

\* C7 witness: a run has ended with a store attached, and the store holds the
\* final logs and the reset flag.
C7_Witness ==
    /\ store
    /\ \E r \in Runs : runpc[r] = "resolved"
    /\ ~isRunning
    /\ Len(logs) >= 3
    /\ published = <<[logs |-> logs, isRunning |-> isRunning]>>

\* C8: for a run() that does not overlap another and during which only the
\* task writes: while the task is pending _isRunning is true and the logs are
\* "Begin" followed by the task's entries in order; once it has ended the logs
\* are that, then the error entry if the task threw, then "Done".  Nothing
\* from before the run is left.
C8_SingleRunLog ==
    solo =>
        LET begin == Strip(LogEntry("Begin", 0))
            done == Strip(LogEntry("Done", 0))
            threw == Strip(ErrorEntry("Task threw an exception: " \o outcome.text, 0))
            body == <<begin>> \o taskWrites
        IN  IF SomeRunAwaiting
            THEN isRunning /\ Stripped(logs) = body
            ELSE /\ outcome.kind \in {"ok", "threw"}
                 /\ ~isRunning
                 /\ Stripped(logs) =
                       body \o (IF outcome.kind = "threw" THEN <<threw>> ELSE <<>>) \o <<done>>

\* C10: in any interleaving of calls of run(), _isRunning is true whenever a
\* call has started and not ended, and a step of one call (its start or its
\* end) removes no log entry while a call is in progress.
C10_RunningWhilePending ==
    [][/\ SomeRunAwaiting' => isRunning'
       /\ (SomeRunAwaiting /\ runpc' # runpc) =>
             /\ Len(logs') >= Len(logs)
             /\ SubSeq(logs', 1, Len(logs)) = logs
      ]_vars

====
